---- MODULE Spec2Model ----
(***************************************************************************)
(* pubg-royale: a promise based client of the PUBG REST API that caches    *)
(* every outcome of a GET (payload, api error, transport error) under the  *)
(* request path, in one expiring cache per resource type.                  *)
(*                                                                         *)
(* JavaScript values are modelled as follows: strings are TLA+ strings,    *)
(* objects are records (a property that is undefined is a field the record *)
(* does not have), arrays are sequences of records, `null` returned by the *)
(* cache is the record NULL, and an Error is a record with the field       *)
(* instanceOf = "Error".                                                   *)
(***************************************************************************)
EXTENDS Integers, Sequences, FiniteSets, TLC

VARIABLES
  clients,    \* client id -> NoClient, or the fields of a PubgRoyaleClient
  config,     \* history: client id -> the options its constructor was given
  now,        \* Date.now(), in ms
  requests,   \* the https requests in flight, in the order they were issued
  gets,       \* number of network GETs issued so far
  last,       \* what the latest step did (event, call, callbacks invoked)
  firstDone,  \* history: per operation and path, the oldest outcome of a
              \* finished network attempt whose TTL window is still open
  fnIn,       \* argument of the pure function under check (SpecURL)
  fnOut       \* its result

vars == <<clients, config, now, requests, gets, last, firstDone, fnIn, fnOut>>

----------------------------------------------------------------------------
(* Bounds *)

MaxTime == 2       \* the clock runs from 0 to MaxTime
MaxGets == 2       \* network GETs per behaviour (Spec)
MaxInFlight == 2   \* https requests in flight at a time (Spec)
MaxOpsGets == 1    \* network GETs per behaviour (SpecOps)
MaxOpsInFlight == 1  \* https requests in flight at a time (SpecOps)
MaxIncluded == 3   \* length of the `included` array (SpecURL)
MaxClientsGets == 2      \* network GETs per behaviour (SpecClients)
MaxClientsInFlight == 2  \* https requests in flight at a time (SpecClients)
MaxRefetchGets == 3      \* network GETs per behaviour (SpecRefetch)
MaxRefetchInFlight == 2  \* https requests in flight at a time (SpecRefetch)
MaxMessagesGets == 2      \* network GETs per behaviour (SpecMessages)
MaxMessagesInFlight == 1  \* https requests in flight at a time (SpecMessages)

----------------------------------------------------------------------------
(* JavaScript values *)

NULL == [null |-> TRUE]
NULLSTR == "<null>"
UNDEFINED == "<undefined>"
NoArg == [noArgument |-> TRUE]
NoClient == [noClient |-> TRUE]

\* o.f !== undefined
Has(o, f) == f \in DOMAIN o

\* new Error(message)
Error(message) == [instanceOf |-> "Error", message |-> message]

\* v instanceof Error
IsError(v) == "instanceOf" \in DOMAIN v

----------------------------------------------------------------------------
(* clean-cache: Cache(ttl), retrieve(key), add(key, value) *)

Cache(ttl) == [ttlMillis |-> ttl, entries |-> [k \in {} |-> NULL]]

retrieve(cache, key, t) ==
  IF key \in DOMAIN cache.entries /\ t < cache.entries[key].expiresAt
  THEN cache.entries[key].value
  ELSE NULL

add(cache, key, value, t) ==
  [cache EXCEPT !.entries =
     [k \in DOMAIN cache.entries \cup {key} |->
        IF k = key THEN [value |-> value, expiresAt |-> t + cache.ttlMillis]
        ELSE cache.entries[k]]]

----------------------------------------------------------------------------
(* Module constants and getApiOptions *)

PUBG_API_HOST_NAME == "api.pubg.com"

REGIONS == [PC |-> [STEAM |-> "steam", KAKAO |-> "kakao"]]

defaultTtl == 60 * 1000

CacheNames ==
  {"playerCache", "playerStatsCache", "statusCache", "seasonsCache",
   "matchCache", "tournamentsCache", "tournamentCache"}

getApiOptions(apiKey, path) ==
  [path |-> path,
   hostname |-> PUBG_API_HOST_NAME,
   method |-> "GET",
   headers |-> [Authorization |-> "Bearer " \o apiKey,
                Accept |-> "application/vnd.api+json"]]

----------------------------------------------------------------------------
(* PubgRoyaleClient.constructor *)

\* mutant: `cacheSettings.x || defaultTtl`, which takes 0 for unset
NewCache_FalsyZero(cacheSettings, name) ==
  IF Has(cacheSettings, name) /\ cacheSettings[name] # 0
  THEN Cache(cacheSettings[name])
  ELSE Cache(defaultTtl)

\* one `if (cacheSettings.x !== undefined) ... else ...` of the constructor
NewCache(cacheSettings, name) ==
  IF Has(cacheSettings, name) THEN Cache(cacheSettings[name])
  ELSE Cache(defaultTtl)

\* mutant: only `options.key === undefined` is tested
constructor_NullKeyAccepted(options) ==
  IF options = NoArg
  THEN [threw |-> Error("No options parameter specified.")]
  ELSE IF ~Has(options, "key")
  THEN [threw |-> Error("Api key must be specified")]
  ELSE
    [apiKey |-> options.key,
     defaultRegion |-> IF Has(options, "defaultRegion")
                       THEN options.defaultRegion ELSE REGIONS.PC.STEAM,
     playerCache |-> IF Has(options, "cache")
                     THEN NewCache(options.cache, "player") ELSE Cache(defaultTtl),
     playerStatsCache |-> IF Has(options, "cache")
                     THEN NewCache(options.cache, "playerStats") ELSE Cache(defaultTtl),
     statusCache |-> IF Has(options, "cache")
                     THEN NewCache(options.cache, "status") ELSE Cache(defaultTtl),
     seasonsCache |-> IF Has(options, "cache")
                     THEN NewCache(options.cache, "seasons") ELSE Cache(defaultTtl),
     matchCache |-> IF Has(options, "cache")
                     THEN NewCache(options.cache, "match") ELSE Cache(defaultTtl),
     tournamentsCache |-> IF Has(options, "cache")
                     THEN NewCache(options.cache, "tournaments") ELSE Cache(defaultTtl),
     tournamentCache |-> IF Has(options, "cache")
                     THEN NewCache(options.cache, "tournament") ELSE Cache(defaultTtl)]

constructor(options) ==
  IF options = NoArg
  THEN [threw |-> Error("No options parameter specified.")]
  ELSE IF ~Has(options, "key") \/ options.key = NULLSTR
  THEN [threw |-> Error("Api key must be specified")]
  ELSE
    [apiKey |-> options.key,
     defaultRegion |-> IF Has(options, "defaultRegion")
                       THEN options.defaultRegion ELSE REGIONS.PC.STEAM,
     playerCache |-> IF Has(options, "cache")
                     THEN NewCache(options.cache, "player") ELSE Cache(defaultTtl),
     playerStatsCache |-> IF Has(options, "cache")
                     THEN NewCache(options.cache, "playerStats") ELSE Cache(defaultTtl),
     statusCache |-> IF Has(options, "cache")
                     THEN NewCache(options.cache, "status") ELSE Cache(defaultTtl),
     seasonsCache |-> IF Has(options, "cache")
                     THEN NewCache(options.cache, "seasons") ELSE Cache(defaultTtl),
     matchCache |-> IF Has(options, "cache")
                     THEN NewCache(options.cache, "match") ELSE Cache(defaultTtl),
     tournamentsCache |-> IF Has(options, "cache")
                     THEN NewCache(options.cache, "tournaments") ELSE Cache(defaultTtl),
     tournamentCache |-> IF Has(options, "cache")
                     THEN NewCache(options.cache, "tournament") ELSE Cache(defaultTtl)]

----------------------------------------------------------------------------
(* The outward-facing operations.  Each returns either                     *)
(*   [reject |-> error]              for  return Promise.reject(error)     *)
(*   [apiOptions |-> o, cache |-> n] for  apiRequest(o, this[n], ...)      *)

\* mutant: options.region is ignored
Region_DefaultOnly(self, options) == self.defaultRegion

Region(self, options) ==
  IF Has(options, "region") THEN options.region ELSE self.defaultRegion

\* mutant: the name is tried before the id
player_NameFirst(self, options) ==
  IF options = NoArg
  THEN [reject |-> Error("No options parameter defined for player api request")]
  ELSE IF ~Has(options, "id") /\ ~Has(options, "name")
  THEN [reject |-> Error("No player id or name specified through \"id\" or \"name\" option")]
  ELSE IF Has(options, "name")
  THEN [apiOptions |-> getApiOptions(self.apiKey,
          "/shards/" \o Region(self, options) \o "/players?filter[playerNames]="
             \o options.name),
        cache |-> "playerCache"]
  ELSE [apiOptions |-> getApiOptions(self.apiKey,
          "/shards/" \o Region(self, options) \o "/players/" \o options.id),
        cache |-> "playerCache"]

player(self, options) ==
  IF options = NoArg
  THEN [reject |-> Error("No options parameter defined for player api request")]
  ELSE IF ~Has(options, "id") /\ ~Has(options, "name")
  THEN [reject |-> Error("No player id or name specified through \"id\" or \"name\" option")]
  ELSE IF Has(options, "id")
  THEN [apiOptions |-> getApiOptions(self.apiKey,
          "/shards/" \o Region(self, options) \o "/players/" \o options.id),
        cache |-> "playerCache"]
  ELSE [apiOptions |-> getApiOptions(self.apiKey,
          "/shards/" \o Region(self, options) \o "/players?filter[playerNames]="
             \o options.name),
        cache |-> "playerCache"]

telemetry(self, options) ==
  IF options = NoArg
  THEN [reject |-> Error("No options parameter defined for telemetry api request")]
  ELSE IF ~Has(options, "matchId")
  THEN [reject |-> Error("No \"matchId\" passed as an option")]
  ELSE [apiOptions |-> getApiOptions(self.apiKey,
          "/shards/" \o Region(self, options) \o "/matches/" \o options.matchId),
        cache |-> "playerCache"]

\* mutant: the check of options.seasonId is missing
playerStats_NoSeasonCheck(self, options) ==
  IF options = NoArg
  THEN [reject |-> Error("No options parameter defined for player stats api request")]
  ELSE IF ~Has(options, "playerId")
  THEN [reject |-> Error("No player id specified through \"playerId\" option")]
  ELSE [apiOptions |-> getApiOptions(self.apiKey,
          "/shards/" \o Region(self, options) \o "/players/" \o options.playerId
             \o "/seasons/"
             \o (IF Has(options, "seasonId") THEN options.seasonId ELSE "undefined")),
        cache |-> "playerStatsCache"]

playerStats(self, options) ==
  IF options = NoArg
  THEN [reject |-> Error("No options parameter defined for player stats api request")]
  ELSE IF ~Has(options, "playerId")
  THEN [reject |-> Error("No player id specified through \"playerId\" option")]
  ELSE IF ~Has(options, "seasonId")
  THEN [reject |-> Error("No season id specified through \"seasonId\" option")]
  ELSE [apiOptions |-> getApiOptions(self.apiKey,
          "/shards/" \o Region(self, options) \o "/players/" \o options.playerId
             \o "/seasons/" \o options.seasonId),
        cache |-> "playerStatsCache"]

status(self, options) ==
  [apiOptions |-> getApiOptions(self.apiKey, "/status"),
   cache |-> "statusCache"]

seasons(self, options) ==
  [apiOptions |-> getApiOptions(self.apiKey,
     "/shards/" \o (IF options = NoArg THEN self.defaultRegion
                    ELSE Region(self, options)) \o "/seasons"),
   cache |-> "seasonsCache"]

match(self, options) ==
  IF options = NoArg
  THEN [reject |-> Error("No options parameter defined for match api request")]
  ELSE IF ~Has(options, "id")
  THEN [reject |-> Error("No match id specified through \"id\" option")]
  ELSE [apiOptions |-> getApiOptions(self.apiKey,
          "/shards/" \o Region(self, options) \o "/matches/" \o options.id),
        cache |-> "matchCache"]

tournaments(self, options) ==
  [apiOptions |-> getApiOptions(self.apiKey, "/tournaments"),
   cache |-> "tournamentsCache"]

tournament(self, options) ==
  IF options = NoArg
  THEN [reject |-> Error("No options parameter defined for tournament api request")]
  ELSE IF ~Has(options, "id")
  THEN [reject |-> Error("No tournament id specified through \"id\" option")]
  ELSE [apiOptions |-> getApiOptions(self.apiKey, "/tournaments/" \o options.id),
        cache |-> "tournamentCache"]

Operations ==
  {"player", "telemetry", "playerStats", "status", "seasons", "match",
   "tournaments", "tournament"}

\* client[op](options)
Operation(self, op, options) ==
  CASE op = "player" -> player(self, options)
    [] op = "telemetry" -> telemetry(self, options)
    [] op = "playerStats" -> playerStats(self, options)
    [] op = "status" -> status(self, options)
    [] op = "seasons" -> seasons(self, options)
    [] op = "match" -> match(self, options)
    [] op = "tournaments" -> tournaments(self, options)
    [] op = "tournament" -> tournament(self, options)

----------------------------------------------------------------------------
(* Response bodies and JSON.parse *)

\* Bodies the server can send, as the chunks the 'data' events deliver.
BodyMatch1 == <<"{\"data\":\"d1\"}">>
BodyMatch2 == <<"{\"data\":", "\"d2\"}">>
BodyNotFound == <<"{\"errors\":[{\"title\":\"Not found\"}]}">>
BodyErrorDetail ==
  <<"{\"errors\":[{\"title\":\"Unauthorized\",\"detail\":\"bad key\"},",
    "{\"title\":\"Other\"}]}">>
BodyNoErrors == <<"{\"errors\":[],\"data\":\"d3\"}">>
BodyHtml == <<"<html>502 Bad Gateway</html>">>

RECURSIVE Join(_)
Join(chunks) == IF chunks = <<>> THEN "" ELSE Head(chunks) \o Join(Tail(chunks))

\* JSON.parse(data): the document a complete JSON text denotes; any other
\* text (a truncated body, an HTML error page, the empty string) throws.
JSONparse(data) ==
  CASE data = Join(BodyMatch1) -> [value |-> [data |-> "d1"]]
    [] data = Join(BodyMatch2) -> [value |-> [data |-> "d2"]]
    [] data = Join(BodyNotFound) ->
         [value |-> [errors |-> <<[title |-> "Not found"]>>]]
    [] data = Join(BodyErrorDetail) ->
         [value |-> [errors |-> <<[title |-> "Unauthorized", detail |-> "bad key"],
                                  [title |-> "Other"]>>]]
    [] data = Join(BodyNoErrors) ->
         [value |-> [errors |-> <<>>, data |-> "d3"]]
    [] OTHER -> [threw |-> Error("SyntaxError: Unexpected token in JSON")]

\* Errors the request's 'error' event can carry.
SocketHangUp == Error("socket hang up")

----------------------------------------------------------------------------
(* apiRequest and the handlers it registers.  Each is a function of the   *)
(* cache and the clock that returns the cache afterwards, the callbacks   *)
(* (resolve/reject) invoked, in order, and whether a GET was issued or an *)
(* exception left the handler.  The handlers of a response and of an      *)
(* error also return `calls`: cache.add and the callbacks in the order in *)
(* which the handler calls them.                                          *)

Resolve(v) == [fn |-> "resolve", arg |-> v]
Reject(e) == [fn |-> "reject", arg |-> e]

\* mutant: the cache is not consulted
apiRequest_AlwaysGet(options, cache, t) ==
  [invoked |-> <<>>, get |-> TRUE]

\* mutant: an entry is used whether or not it has expired
apiRequest_IgnoresExpiry(options, cache, t) ==
  LET cachedObject == IF options.path \in DOMAIN cache.entries
                      THEN cache.entries[options.path].value ELSE NULL IN
  IF cachedObject # NULL
  THEN IF IsError(cachedObject)
       THEN [invoked |-> <<Reject(cachedObject)>>, get |-> FALSE]
       ELSE [invoked |-> <<Resolve(cachedObject)>>, get |-> FALSE]
  ELSE [invoked |-> <<>>, get |-> TRUE]

\* apiRequest up to https.get: the cache lookup
apiRequest(options, cache, t) ==
  LET cachedObject == retrieve(cache, options.path, t) IN
  IF cachedObject # NULL
  THEN IF IsError(cachedObject)
       THEN [invoked |-> <<Reject(cachedObject)>>, get |-> FALSE]
       ELSE [invoked |-> <<Resolve(cachedObject)>>, get |-> FALSE]
  ELSE [invoked |-> <<>>, get |-> TRUE]

\* mutant: the detail is left out of the message
ErrorMessage_TitleOnly(apiData) == apiData.errors[1].title

\* the message of the Error built from an error envelope
ErrorMessage(apiData) ==
  IF Has(apiData.errors[1], "detail")
  THEN apiData.errors[1].title \o ". Details: " \o apiData.errors[1].detail
  ELSE apiData.errors[1].title

\* mutant: an api error is rejected but not stored
onEnd_ErrorNotCached(options, cache, data, t) ==
  LET parsed == JSONparse(data) IN
  IF Has(parsed, "threw")
  THEN [cache |-> cache, invoked |-> <<>>, calls |-> <<>>, threw |-> TRUE]
  ELSE LET apiData == parsed.value IN
       IF Has(apiData, "errors") /\ Len(apiData.errors) > 0
       THEN [cache |-> cache,
             invoked |-> <<Reject(Error(ErrorMessage(apiData)))>>,
             calls |-> <<"reject">>, threw |-> FALSE]
       ELSE [cache |-> add(cache, options.path, apiData, t),
             invoked |-> <<Resolve(apiData)>>,
             calls |-> <<"add", "resolve">>, threw |-> FALSE]

\* mutant: the outcome is stored under the host name, not the path
onEnd_KeyedByHost(options, cache, data, t) ==
  LET parsed == JSONparse(data) IN
  IF Has(parsed, "threw")
  THEN [cache |-> cache, invoked |-> <<>>, calls |-> <<>>, threw |-> TRUE]
  ELSE LET apiData == parsed.value IN
       IF Has(apiData, "errors") /\ Len(apiData.errors) > 0
       THEN LET apiError == Error(ErrorMessage(apiData)) IN
            [cache |-> add(cache, options.hostname, apiError, t),
             invoked |-> <<Reject(apiError)>>,
             calls |-> <<"add", "reject">>, threw |-> FALSE]
       ELSE [cache |-> add(cache, options.hostname, apiData, t),
             invoked |-> <<Resolve(apiData)>>,
             calls |-> <<"add", "resolve">>, threw |-> FALSE]

\* mutant: an entry that exists for the path, expired or not, is kept
onEnd_KeepsOldEntry(options, cache, data, t) ==
  LET parsed == JSONparse(data) IN
  IF Has(parsed, "threw")
  THEN [cache |-> cache, invoked |-> <<>>, calls |-> <<>>, threw |-> TRUE]
  ELSE LET apiData == parsed.value IN
       IF Has(apiData, "errors") /\ Len(apiData.errors) > 0
       THEN LET apiError == Error(ErrorMessage(apiData)) IN
            [cache |-> IF options.path \in DOMAIN cache.entries THEN cache
                       ELSE add(cache, options.path, apiError, t),
             invoked |-> <<Reject(apiError)>>,
             calls |-> IF options.path \in DOMAIN cache.entries THEN <<"reject">>
                       ELSE <<"add", "reject">>,
             threw |-> FALSE]
       ELSE [cache |-> IF options.path \in DOMAIN cache.entries THEN cache
                       ELSE add(cache, options.path, apiData, t),
             invoked |-> <<Resolve(apiData)>>,
             calls |-> IF options.path \in DOMAIN cache.entries THEN <<"resolve">>
                       ELSE <<"add", "resolve">>,
             threw |-> FALSE]

\* mutant: the callback is invoked before the outcome is stored
onEnd_SettlesFirst(options, cache, data, t) ==
  LET parsed == JSONparse(data) IN
  IF Has(parsed, "threw")
  THEN [cache |-> cache, invoked |-> <<>>, calls |-> <<>>, threw |-> TRUE]
  ELSE LET apiData == parsed.value IN
       IF Has(apiData, "errors") /\ Len(apiData.errors) > 0
       THEN LET apiError == Error(ErrorMessage(apiData)) IN
            [cache |-> add(cache, options.path, apiError, t),
             invoked |-> <<Reject(apiError)>>,
             calls |-> <<"reject", "add">>, threw |-> FALSE]
       ELSE [cache |-> add(cache, options.path, apiData, t),
             invoked |-> <<Resolve(apiData)>>,
             calls |-> <<"resolve", "add">>, threw |-> FALSE]

\* resp.on('end', ...)
onEnd(options, cache, data, t) ==
  LET parsed == JSONparse(data) IN
  IF Has(parsed, "threw")
  THEN [cache |-> cache, invoked |-> <<>>, calls |-> <<>>, threw |-> TRUE]
  ELSE LET apiData == parsed.value IN
       IF Has(apiData, "errors") /\ Len(apiData.errors) > 0
       THEN LET apiError == Error(ErrorMessage(apiData)) IN
            [cache |-> add(cache, options.path, apiError, t),
             invoked |-> <<Reject(apiError)>>,
             calls |-> <<"add", "reject">>, threw |-> FALSE]
       ELSE [cache |-> add(cache, options.path, apiData, t),
             invoked |-> <<Resolve(apiData)>>,
             calls |-> <<"add", "resolve">>, threw |-> FALSE]

\* mutant: a transport error is rejected but not stored
onError_NotCached(options, cache, err, t) ==
  [cache |-> cache, invoked |-> <<Reject(err)>>, calls |-> <<"reject">>,
   threw |-> FALSE]

\* mutant: a transport error is stored for one millisecond longer
onError_LivesLonger(options, cache, err, t) ==
  [cache |-> add(cache, options.path, err, t + 1),
   invoked |-> <<Reject(err)>>, calls |-> <<"add", "reject">>, threw |-> FALSE]

\* mutant: a transport error does not overwrite a live success
onError_KeepsSuccess(options, cache, err, t) ==
  LET cachedObject == retrieve(cache, options.path, t) IN
  [cache |-> IF cachedObject # NULL /\ ~IsError(cachedObject) THEN cache
             ELSE add(cache, options.path, err, t),
   invoked |-> <<Reject(err)>>, calls |-> <<"add", "reject">>, threw |-> FALSE]

\* .on('error', ...)
onError(options, cache, err, t) ==
  [cache |-> add(cache, options.path, err, t),
   invoked |-> <<Reject(err)>>, calls |-> <<"add", "reject">>, threw |-> FALSE]

----------------------------------------------------------------------------
(* getTelemetryURL *)

\* the callback given to filter: truthy (arr) for an asset, undefined otherwise
IsAsset(val) == val.type = "asset"

\* `asset !== undefined`: filter always returns an array
FilterResultDefined(asset) == TRUE

getTelemetryURL(jsonReturned) ==
  LET asset == SelectSeq(jsonReturned.included, IsAsset) IN
  IF FilterResultDefined(asset)
  THEN IF Len(asset) = 0
       THEN [threw |-> Error("TypeError: Cannot read property 'attributes' of undefined")]
       ELSE [return |-> IF Has(asset[1].attributes, "URL")
                        THEN asset[1].attributes.URL ELSE UNDEFINED]
  ELSE [return |-> UNDEFINED]

----------------------------------------------------------------------------
(* Inputs *)

ClientIds == {1, 2}

\* constructor arguments of the client under check
CoreClientOptions ==
  {[key |-> "k1"],
   [key |-> "k1", cache |-> [match |-> 2, player |-> 0]],
   [key |-> "k1", cache |-> [match |-> 0, player |-> 2]]}

\* constructor arguments of the client in SpecOps
OpsClientOptions ==
  {[key |-> "k1"],
   [key |-> "k2", defaultRegion |-> REGIONS.PC.KAKAO,
    cache |-> [player |-> 2, playerStats |-> 0, tournament |-> 1]]}

\* calls made in Spec
CoreInputs ==
  {[op |-> "match", options |-> [id |-> "a"]],
   [op |-> "telemetry", options |-> [matchId |-> "a"]],
   [op |-> "match", options |-> [region |-> "kakao"]]}

CoreBodies == {BodyMatch1, BodyNotFound, BodyHtml}

\* calls made in SpecOps: every operation, with and without each field
OptionFields(op) ==
  CASE op = "player" -> {"region", "id", "name"}
    [] op = "playerStats" -> {"region", "playerId", "seasonId"}
    [] op \in {"match", "tournament"} -> {"region", "id"}
    [] op = "telemetry" -> {"region", "matchId"}
    [] op = "seasons" -> {"region"}
    [] OTHER -> {}

FieldValue(f) == IF f = "region" THEN REGIONS.PC.KAKAO ELSE "a"

AllInputs ==
  {[op |-> op, options |-> NoArg] : op \in Operations} \cup
  UNION {{[op |-> op, options |-> [f \in fs |-> FieldValue(f)]] :
            fs \in SUBSET OptionFields(op)} : op \in Operations}

OpsBodies == {BodyMatch2, BodyNotFound, BodyErrorDetail, BodyNoErrors}

----------------------------------------------------------------------------
(* State machine *)

\* the record of a step in `last`
\*   event      "call", "response", "data", "end", "error", "close", "tick"
\*   client, op, options, cache, path   the call the step belongs to
\*   data       the text handed to JSON.parse ("end")
\*   get        the step issued a network GET
\*   retrieved  the step looked the path up in the cache
\*   invoked    the callbacks (resolve/reject) the step invoked, in order
\*   calls      what the step called, in order: "retrieve", "get", "add",
\*              "resolve", "reject"
\*   total      callbacks invoked for this call so far, this step included
\*   threw      an exception left the handler
\*   over       no further event of this call can follow
Step(event, c, op, options, cacheName, path, eff) ==
  [event |-> event, client |-> c, op |-> op, options |-> options,
   cache |-> cacheName, path |-> path, data |-> eff.data,
   get |-> eff.get, retrieved |-> eff.retrieved, invoked |-> eff.invoked,
   calls |-> eff.calls, total |-> eff.total, threw |-> eff.threw, over |-> eff.over]

NoStep(event) ==
  Step(event, 0, "none", NoArg, "none", "none",
       [data |-> "", get |-> FALSE, retrieved |-> FALSE, invoked |-> <<>>,
        calls |-> <<>>, total |-> 0, threw |-> FALSE, over |-> FALSE])

DoneKey(c, op, path) == [client |-> c, op |-> op, path |-> path]

\* history: remember the outcome of a network attempt that is over (its
\* 'end' handler has run, or it failed before any response) unless an older
\* one for the same operation and path is still within its TTL; `refetch`
\* tells whether the attempt was issued over an expired entry
NoteDone(fd, key, kind, value, ttl, t, refetch) ==
  IF key \in DOMAIN fd /\ t < fd[key].expires THEN fd
  ELSE [k \in DOMAIN fd \cup {key} |->
          IF k = key THEN [kind |-> kind, value |-> value, expires |-> t + ttl,
                           refetch |-> refetch]
          ELSE fd[k]]

Remove(seq, i) == SubSeq(seq, 1, i - 1) \o SubSeq(seq, i + 1, Len(seq))

InitFrom(ClientOptions) ==
  /\ \E o \in ClientOptions :
       /\ clients = [c \in ClientIds |-> IF c = 1 THEN constructor(o) ELSE NoClient]
       /\ config = [c \in ClientIds |-> IF c = 1 THEN o ELSE NoArg]
  /\ now = 0
  /\ requests = <<>>
  /\ gets = 0
  /\ last = NoStep("init")
  /\ firstDone = [k \in {} |-> NULL]
  /\ fnIn = NoArg
  /\ fnOut = NoArg

\* mutant: a call joins a request for the same path that is in flight
Call_Coalesced(c, in, maxGets, maxInFlight) ==
  /\ clients[c] # NoClient
  /\ LET r == Operation(clients[c], in.op, in.options) IN
     IF Has(r, "reject")
     THEN /\ last' = Step("call", c, in.op, in.options, "none", "none",
                          [data |-> "", get |-> FALSE, retrieved |-> FALSE,
                           invoked |-> <<Reject(r.reject)>>,
                           calls |-> <<"reject">>, total |-> 1,
                           threw |-> FALSE, over |-> TRUE])
          /\ UNCHANGED <<requests, gets>>
     ELSE LET found == apiRequest(r.apiOptions, clients[c][r.cache], now)
              pending == \E i \in 1..Len(requests) :
                           /\ requests[i].client = c
                           /\ requests[i].cache = r.cache
                           /\ requests[i].options.path = r.apiOptions.path
              a == [invoked |-> found.invoked, get |-> found.get /\ ~pending] IN
          /\ a.get => gets < maxGets /\ Len(requests) < maxInFlight
          /\ gets' = IF a.get THEN gets + 1 ELSE gets
          /\ last' = Step("call", c, in.op, in.options, r.cache, r.apiOptions.path,
                          [data |-> "", get |-> a.get, retrieved |-> TRUE,
                           invoked |-> a.invoked,
                           calls |-> <<"retrieve">> \o
                                     (IF a.get THEN <<"get">>
                                      ELSE [j \in 1..Len(a.invoked) |->
                                              a.invoked[j].fn]),
                           total |-> Len(a.invoked),
                           threw |-> FALSE, over |-> ~a.get])
          /\ requests' =
               IF a.get
               THEN Append(requests,
                      [client |-> c, op |-> in.op, args |-> in.options,
                       cache |-> r.cache,
                       options |-> r.apiOptions, stage |-> "sent",
                       body |-> <<>>, data |-> "", invoked |-> 0,
                       refetch |-> r.apiOptions.path
                                     \in DOMAIN clients[c][r.cache].entries])
               ELSE requests
  /\ UNCHANGED <<clients, config, now, firstDone, fnIn, fnOut>>

\* client[op](options): validation, then apiRequest up to https.get
Call(c, in, maxGets, maxInFlight) ==
  /\ clients[c] # NoClient
  /\ LET r == Operation(clients[c], in.op, in.options) IN
     IF Has(r, "reject")
     THEN /\ last' = Step("call", c, in.op, in.options, "none", "none",
                          [data |-> "", get |-> FALSE, retrieved |-> FALSE,
                           invoked |-> <<Reject(r.reject)>>,
                           calls |-> <<"reject">>, total |-> 1,
                           threw |-> FALSE, over |-> TRUE])
          /\ UNCHANGED <<requests, gets>>
     ELSE LET a == apiRequest(r.apiOptions, clients[c][r.cache], now) IN
          /\ a.get => gets < maxGets /\ Len(requests) < maxInFlight
          /\ gets' = IF a.get THEN gets + 1 ELSE gets
          /\ last' = Step("call", c, in.op, in.options, r.cache, r.apiOptions.path,
                          [data |-> "", get |-> a.get, retrieved |-> TRUE,
                           invoked |-> a.invoked,
                           calls |-> <<"retrieve">> \o
                                     (IF a.get THEN <<"get">>
                                      ELSE [j \in 1..Len(a.invoked) |->
                                              a.invoked[j].fn]),
                           total |-> Len(a.invoked),
                           threw |-> FALSE, over |-> ~a.get])
          /\ requests' =
               IF a.get
               THEN Append(requests,
                      [client |-> c, op |-> in.op, args |-> in.options,
                       cache |-> r.cache,
                       options |-> r.apiOptions, stage |-> "sent",
                       body |-> <<>>, data |-> "", invoked |-> 0,
                       refetch |-> r.apiOptions.path
                                     \in DOMAIN clients[c][r.cache].entries])
               ELSE requests
  /\ UNCHANGED <<clients, config, now, firstDone, fnIn, fnOut>>

\* the callback of https.get: a response arrives, `let data = ''`
Response(i, body) ==
  /\ requests[i].stage = "sent"
  /\ requests' = [requests EXCEPT ![i].stage = "receiving",
                                  ![i].body = body, ![i].data = ""]
  /\ last' = NoStep("response")
  /\ UNCHANGED <<clients, config, now, gets, firstDone, fnIn, fnOut>>

\* resp.on('data', ...): data += chunk; the listener has no guard, so it
\* also runs for the chunks delivered after the request's 'error'
Data(i) ==
  /\ requests[i].stage \in {"receiving", "aborted"}
  /\ requests[i].body # <<>>
  /\ requests' = [requests EXCEPT ![i].data = @ \o Head(requests[i].body),
                                  ![i].body = Tail(@)]
  /\ last' = NoStep("data")
  /\ UNCHANGED <<clients, config, now, gets, firstDone, fnIn, fnOut>>

\* mutant: the caches are module-level, one set for every client
End_SharedCache(i) ==
  LET r == requests[i]
      eff == onEnd(r.options, clients[r.client][r.cache], r.data, now) IN
  /\ r.stage \in {"receiving", "aborted"}
  /\ r.body = <<>>
  /\ clients' = [d \in ClientIds |->
                  IF clients[d] = NoClient THEN NoClient
                  ELSE [clients[d] EXCEPT ![r.cache] = eff.cache]]
  /\ requests' = Remove(requests, i)
  /\ last' = Step("end", r.client, r.op, r.args, r.cache, r.options.path,
                  [data |-> r.data, get |-> FALSE, retrieved |-> FALSE, invoked |-> eff.invoked,
                   calls |-> eff.calls,
                   total |-> r.invoked + Len(eff.invoked),
                   threw |-> eff.threw, over |-> TRUE])
  /\ firstDone' =
       IF eff.threw THEN firstDone
       ELSE NoteDone(firstDone, DoneKey(r.client, r.op, r.options.path),
                     IF eff.invoked[1].fn = "resolve" THEN "success" ELSE "api",
                     eff.invoked[1].arg,
                     clients[r.client][r.cache].ttlMillis, now, r.refetch)
  /\ UNCHANGED <<config, now, gets, fnIn, fnOut>>

\* resp.on('end', ...): after the last chunk that is delivered, whether or
\* not the request's 'error' was emitted while the response was received
End(i) ==
  LET r == requests[i]
      eff == onEnd(r.options, clients[r.client][r.cache], r.data, now) IN
  /\ r.stage \in {"receiving", "aborted"}
  /\ r.body = <<>>
  /\ clients' = [clients EXCEPT ![r.client][r.cache] = eff.cache]
  /\ requests' = Remove(requests, i)
  /\ last' = Step("end", r.client, r.op, r.args, r.cache, r.options.path,
                  [data |-> r.data, get |-> FALSE, retrieved |-> FALSE, invoked |-> eff.invoked,
                   calls |-> eff.calls,
                   total |-> r.invoked + Len(eff.invoked),
                   threw |-> eff.threw, over |-> TRUE])
  /\ firstDone' =
       IF eff.threw THEN firstDone
       ELSE NoteDone(firstDone, DoneKey(r.client, r.op, r.options.path),
                     IF eff.invoked[1].fn = "resolve" THEN "success" ELSE "api",
                     eff.invoked[1].arg,
                     clients[r.client][r.cache].ttlMillis, now, r.refetch)
  /\ UNCHANGED <<config, now, gets, fnIn, fnOut>>

\* mutant: a request that failed before any response is issued again
ErrorEvent_Retries(i, err) ==
  LET r == requests[i]
      eff == onError(r.options, clients[r.client][r.cache], err, now) IN
  /\ r.stage \in {"sent", "receiving"}
  /\ clients' = [clients EXCEPT ![r.client][r.cache] = eff.cache]
  /\ IF r.stage = "sent" THEN requests' = requests
       ELSE \E rest \in {r.body, <<>>} :
              requests' = [requests EXCEPT ![i].stage = "aborted", ![i].body = rest,
                                           ![i].invoked = @ + Len(eff.invoked)]
  /\ last' = Step("error", r.client, r.op, r.args, r.cache, r.options.path,
                  [data |-> "", get |-> FALSE, retrieved |-> FALSE, invoked |-> eff.invoked,
                   calls |-> eff.calls,
                   total |-> r.invoked + Len(eff.invoked),
                   threw |-> FALSE, over |-> r.stage = "sent"])
  /\ firstDone' =
       IF r.stage = "sent"
       THEN NoteDone(firstDone, DoneKey(r.client, r.op, r.options.path),
                     "transport", err, clients[r.client][r.cache].ttlMillis, now,
                     r.refetch)
       ELSE firstDone
  /\ gets' = IF r.stage = "sent" THEN gets + 1 ELSE gets
  /\ UNCHANGED <<config, now, fnIn, fnOut>>

\* .on('error', ...): the request fails before a response, or while the
\* response is being received; in the second case the listener runs and the
\* response goes on: the rest of the body is still delivered (bytes after
\* the message that do not parse) or is lost (the socket failed)
ErrorEvent(i, err) ==
  LET r == requests[i]
      eff == onError(r.options, clients[r.client][r.cache], err, now) IN
  /\ r.stage \in {"sent", "receiving"}
  /\ clients' = [clients EXCEPT ![r.client][r.cache] = eff.cache]
  /\ IF r.stage = "sent" THEN requests' = Remove(requests, i)
       ELSE \E rest \in {r.body, <<>>} :
              requests' = [requests EXCEPT ![i].stage = "aborted", ![i].body = rest,
                                           ![i].invoked = @ + Len(eff.invoked)]
  /\ last' = Step("error", r.client, r.op, r.args, r.cache, r.options.path,
                  [data |-> "", get |-> FALSE, retrieved |-> FALSE, invoked |-> eff.invoked,
                   calls |-> eff.calls,
                   total |-> r.invoked + Len(eff.invoked),
                   threw |-> FALSE, over |-> r.stage = "sent"])
  /\ firstDone' =
       IF r.stage = "sent"
       THEN NoteDone(firstDone, DoneKey(r.client, r.op, r.options.path),
                     "transport", err, clients[r.client][r.cache].ttlMillis, now,
                     r.refetch)
       ELSE firstDone
  /\ UNCHANGED <<config, now, gets, fnIn, fnOut>>

\* the failed response is aborted and closed without an 'end' event
Close(i) ==
  /\ requests[i].stage = "aborted"
  /\ requests' = Remove(requests, i)
  /\ last' = NoStep("close")
  /\ UNCHANGED <<clients, config, now, gets, firstDone, fnIn, fnOut>>

\* a millisecond passes (the history forgets the outcomes whose TTL is over)
Tick ==
  /\ now < MaxTime
  /\ now' = now + 1
  /\ last' = NoStep("tick")
  /\ firstDone' = [k \in {j \in DOMAIN firstDone : now' < firstDone[j].expires}
                     |-> firstDone[k]]
  /\ UNCHANGED <<clients, config, requests, gets, fnIn, fnOut>>

Init == InitFrom(CoreClientOptions)

Next ==
  \/ \E c \in ClientIds, in \in CoreInputs : Call(c, in, MaxGets, MaxInFlight)
  \/ \E i \in 1..Len(requests), body \in CoreBodies : Response(i, body)
  \/ \E i \in 1..Len(requests) : Data(i)
  \/ \E i \in 1..Len(requests) : End(i)
  \/ \E i \in 1..Len(requests) : ErrorEvent(i, SocketHangUp)
  \/ \E i \in 1..Len(requests) : Close(i)
  \/ Tick

Spec == Init /\ [][Next]_vars

\* every operation with every shape of its options
NextOps ==
  \/ \E c \in ClientIds, in \in AllInputs : Call(c, in, MaxOpsGets, MaxOpsInFlight)
  \/ \E i \in 1..Len(requests), body \in OpsBodies : Response(i, body)
  \/ \E i \in 1..Len(requests) : Data(i)
  \/ \E i \in 1..Len(requests) : End(i)
  \/ \E i \in 1..Len(requests) : ErrorEvent(i, SocketHangUp)
  \/ \E i \in 1..Len(requests) : Close(i)
  \/ Tick

InitOps == InitFrom(OpsClientOptions)

SpecOps == InitOps /\ [][NextOps]_vars

\* clients are constructed while the program runs
ClientsOptions ==
  {NoArg,
   [cache |-> [match |-> 2]],
   [key |-> NULLSTR],
   [key |-> "k1"],
   [key |-> "k2", cache |-> [match |-> 2]]}

ClientsInputs == {[op |-> "match", options |-> [id |-> "a"]]}

ClientsBodies == {BodyMatch1, BodyNotFound}

InitClients ==
  /\ clients = [c \in ClientIds |-> NoClient]
  /\ config = [c \in ClientIds |-> NoArg]
  /\ now = 0
  /\ requests = <<>>
  /\ gets = 0
  /\ last = NoStep("init")
  /\ firstDone = [k \in {} |-> NULL]
  /\ fnIn = NoArg
  /\ fnOut = NoArg

\* new PubgRoyaleClient(options)
Construct(c, o) ==
  LET r == constructor(o) IN
  /\ clients[c] = NoClient
  /\ clients' = IF Has(r, "threw") THEN clients ELSE [clients EXCEPT ![c] = r]
  /\ config' = IF Has(r, "threw") THEN config ELSE [config EXCEPT ![c] = o]
  /\ last' = Step("construct", c, "constructor", o, "none", "none",
                  [data |-> IF Has(r, "threw") THEN r.threw.message ELSE "",
                   get |-> FALSE, retrieved |-> FALSE, invoked |-> <<>>,
                   calls |-> <<>>, total |-> 0, threw |-> Has(r, "threw"), over |-> FALSE])
  /\ UNCHANGED <<now, requests, gets, firstDone, fnIn, fnOut>>

NextClients ==
  \/ \E c \in ClientIds, o \in ClientsOptions : Construct(c, o)
  \/ \E c \in ClientIds, in \in ClientsInputs :
       Call(c, in, MaxClientsGets, MaxClientsInFlight)
  \/ \E i \in 1..Len(requests), body \in ClientsBodies : Response(i, body)
  \/ \E i \in 1..Len(requests) : Data(i)
  \/ \E i \in 1..Len(requests) : End(i)
  \/ \E i \in 1..Len(requests) : ErrorEvent(i, SocketHangUp)
  \/ \E i \in 1..Len(requests) : Close(i)
  \/ Tick

SpecClients == InitClients /\ [][NextClients]_vars

\* re-fetches: one path, a TTL of 1 ms, three GETs; the transport fails
\* only before a response has started
RefetchClientOptions == {[key |-> "k1", cache |-> [match |-> 1]]}

RefetchInputs == {[op |-> "match", options |-> [id |-> "a"]]}

RefetchBodies == {BodyMatch1, BodyNotFound}

InitRefetch == InitFrom(RefetchClientOptions)

NextRefetch ==
  \/ \E c \in ClientIds, in \in RefetchInputs :
       Call(c, in, MaxRefetchGets, MaxRefetchInFlight)
  \/ \E i \in 1..Len(requests), body \in RefetchBodies : Response(i, body)
  \/ \E i \in 1..Len(requests) : Data(i)
  \/ \E i \in 1..Len(requests) : End(i)
  \/ \E i \in 1..Len(requests) :
       requests[i].stage = "sent" /\ ErrorEvent(i, SocketHangUp)
  \/ Tick

SpecRefetch == InitRefetch /\ [][NextRefetch]_vars

\* response documents: two paths of one cache, one request at a time, and
\* every shape of document the 'end' listener tells apart (an error with a
\* title only, an error with a detail and a second element, an empty
\* `errors` array, no `errors` field)
MessagesClientOptions == {[key |-> "k1", cache |-> [match |-> 2]]}

MessagesInputs ==
  {[op |-> "match", options |-> [id |-> "a"]],
   [op |-> "match", options |-> [id |-> "b"]]}

MessagesBodies == {BodyNotFound, BodyErrorDetail, BodyNoErrors, BodyMatch2}

InitMessages == InitFrom(MessagesClientOptions)

NextMessages ==
  \/ \E c \in ClientIds, in \in MessagesInputs :
       Call(c, in, MaxMessagesGets, MaxMessagesInFlight)
  \/ \E i \in 1..Len(requests), body \in MessagesBodies : Response(i, body)
  \/ \E i \in 1..Len(requests) : Data(i)
  \/ \E i \in 1..Len(requests) : End(i)
  \/ \E i \in 1..Len(requests) : ErrorEvent(i, SocketHangUp)
  \/ \E i \in 1..Len(requests) : Close(i)
  \/ Tick

SpecMessages == InitMessages /\ [][NextMessages]_vars

\* getTelemetryURL applied to a response document
IncludedEntries ==
  {[type |-> "asset", attributes |-> [URL |-> "http://x"]],
   [type |-> "asset", attributes |-> [URL |-> "http://y"]],
   [type |-> "participant", attributes |-> [name |-> "p"]],
   [type |-> "roster", attributes |-> [won |-> "true"]]}

RECURSIVE SeqsUpTo(_, _)
SeqsUpTo(S, n) ==
  IF n = 0 THEN {<<>>}
  ELSE SeqsUpTo(S, n - 1) \cup
       {Append(q, e) : q \in {p \in SeqsUpTo(S, n - 1) : Len(p) = n - 1}, e \in S}

InitURL ==
  /\ clients = [c \in ClientIds |-> NoClient]
  /\ config = [c \in ClientIds |-> NoArg]
  /\ now = 0
  /\ requests = <<>>
  /\ gets = 0
  /\ last = NoStep("init")
  /\ firstDone = [k \in {} |-> NULL]
  /\ fnIn \in {[included |-> inc] : inc \in SeqsUpTo(IncludedEntries, MaxIncluded)}
  /\ fnOut = NoArg

CallGetTelemetryURL ==
  /\ fnOut = NoArg
  /\ fnOut' = getTelemetryURL(fnIn)
  /\ UNCHANGED <<clients, config, now, requests, gets, last, firstDone, fnIn>>

NextURL == CallGetTelemetryURL

SpecURL == InitURL /\ [][NextURL]_vars

----------------------------------------------------------------------------
(* Vocabulary of the properties *)

\* the latest step called an operation that passed validation
IsRequest == last.event = "call" /\ last.cache # "none"

\* the cache the latest step's call uses, and its entry for the call's path
LastCache == clients[last.client][last.cache]
HasEntry == last.path \in DOMAIN LastCache.entries
LastEntry == LastCache.entries[last.path]
LiveEntry == HasEntry /\ now < LastEntry.expiresAt

\* the latest step answered the call from the cache with callback fn(v)
AnsweredFromCache(fn, v) ==
  /\ last.invoked = <<[fn |-> fn, arg |-> v]>>
  /\ ~last.get
  /\ last.over

\* the latest step stored v under the call's path, with the cache's TTL
Stored(v) ==
  /\ HasEntry
  /\ LastEntry = [value |-> v, expiresAt |-> now + LastCache.ttlMillis]

\* the oldest outcome of a network attempt of this operation for this path
\* whose TTL has not elapsed, if there is one
LastDoneKey == DoneKey(last.client, last.op, last.path)
EarlierOutcome(kind) ==
  /\ LastDoneKey \in DOMAIN firstDone
  /\ firstDone[LastDoneKey].kind = kind
  /\ now < firstDone[LastDoneKey].expires

\* the text is a JSON document with a non-empty `errors` array
IsErrorEnvelope(data) ==
  LET parsed == JSONparse(data) IN
  /\ Has(parsed, "value")
  /\ Has(parsed.value, "errors")
  /\ parsed.value.errors # <<>>

----------------------------------------------------------------------------
(* C1 *)

\* C1, as stated: once a request of an operation for path p has completed
\* successfully with payload d, every later request of that operation for p
\* made before d's TTL has elapsed resolves with d and issues no GET.
C1_Original ==
  (IsRequest /\ EarlierOutcome("success"))
    => AnsweredFromCache("resolve", firstDone[LastDoneKey].value)

\* C1, amended: a successful completion stores its payload d under p with
\* the cache's TTL, and every request for p that finds this entry live
\* (not expired and not replaced by the completion of another network
\* attempt for p) resolves with d and issues no GET.
C1_CachedSuccess ==
  /\ (last.event = "end" /\ last.invoked # <<>> /\ last.invoked[1].fn = "resolve")
       => Stored(last.invoked[1].arg)
  /\ (IsRequest /\ LiveEntry /\ ~IsError(LastEntry.value))
       => AnsweredFromCache("resolve", LastEntry.value)

C1_Witness ==
  /\ IsRequest /\ LiveEntry /\ ~IsError(LastEntry.value)
  /\ LastCache.ttlMillis > 0
  /\ last.invoked # <<>> /\ last.invoked[1].fn = "resolve"

----------------------------------------------------------------------------
(* C2 *)

\* C2, as stated: after a request of an operation for p was answered with
\* an error envelope, every later request for p made before the TTL of that
\* entry has elapsed rejects with that same error and issues no GET.
C2_Original ==
  (IsRequest /\ EarlierOutcome("api"))
    => AnsweredFromCache("reject", firstDone[LastDoneKey].value)

\* C2, amended: a response with a non-empty `errors` array makes the call
\* reject with an Error that is stored under p with the cache's TTL, and
\* every request for p that finds this entry live (not expired and not
\* replaced by the completion of another network attempt for p) rejects
\* with that same error and issues no GET.
C2_CachedApiError ==
  /\ (last.event = "end" /\ IsErrorEnvelope(last.data))
       => /\ Len(last.invoked) = 1
          /\ last.invoked[1].fn = "reject"
          /\ IsError(last.invoked[1].arg)
          /\ Stored(last.invoked[1].arg)
  /\ (IsRequest /\ LiveEntry /\ IsError(LastEntry.value)
        /\ LastEntry.value # SocketHangUp)
       => AnsweredFromCache("reject", LastEntry.value)

C2_Witness ==
  /\ IsRequest /\ LiveEntry /\ IsError(LastEntry.value)
  /\ LastEntry.value # SocketHangUp
  /\ last.invoked # <<>> /\ last.invoked[1].fn = "reject"

----------------------------------------------------------------------------
(* C3 *)

\* C3, as stated: after the transport of a request of an operation for p
\* failed, every later request for p made before the TTL of that entry has
\* elapsed rejects with the transport error and issues no GET.
C3_Original ==
  (IsRequest /\ EarlierOutcome("transport"))
    => AnsweredFromCache("reject", firstDone[LastDoneKey].value)

\* C3, amended: a request 'error' event makes the call reject with the raw
\* transport error, which is stored under p with the cache's TTL, and every
\* request for p that finds this entry live (not expired and not replaced by
\* a later completion for p: the 'end' event of the same response or the
\* outcome of another network attempt) rejects with it and issues no GET.
C3_CachedTransportError ==
  /\ last.event = "error"
       => /\ last.invoked = <<Reject(SocketHangUp)>>
          /\ Stored(SocketHangUp)
  /\ (IsRequest /\ LiveEntry /\ LastEntry.value = SocketHangUp)
       => AnsweredFromCache("reject", SocketHangUp)

C3_Witness ==
  /\ IsRequest /\ LiveEntry /\ LastEntry.value = SocketHangUp
  /\ last.invoked = <<Reject(SocketHangUp)>>

----------------------------------------------------------------------------
(* C4, C5 *)

\* C4: every call is settled once its network attempt has produced its
\* outcome, whatever the outcome is: when no further event of the call can
\* follow, resolve or reject has been invoked.
C4_Settles == last.over => last.total >= 1

\* C5: no call invokes resolve/reject more than once in total.
C5_AtMostOnce ==
  /\ last.total <= 1
  /\ \A i \in 1..Len(requests) : requests[i].invoked <= 1

----------------------------------------------------------------------------
(* C6 *)

\* the call lacks a field the operation requires
MissingRequired(op, options) ==
  CASE op = "player" ->
         options = NoArg \/ (~Has(options, "id") /\ ~Has(options, "name"))
    [] op = "playerStats" ->
         options = NoArg \/ ~Has(options, "playerId") \/ ~Has(options, "seasonId")
    [] op = "match" -> options = NoArg \/ ~Has(options, "id")
    [] op = "telemetry" -> options = NoArg \/ ~Has(options, "matchId")
    [] op = "tournament" -> options = NoArg \/ ~Has(options, "id")
    [] OTHER -> FALSE

\* C6: a call of an operation without its required field (or without its
\* options object) is rejected with an error, issues no GET, looks nothing
\* up in a cache and leaves every cache and every request in flight as it is.
C6_ValidationRejects ==
  [][(last'.event = "call" /\ MissingRequired(last'.op, last'.options))
       => /\ Len(last'.invoked) = 1
          /\ last'.invoked[1].fn = "reject"
          /\ IsError(last'.invoked[1].arg)
          /\ ~last'.get
          /\ ~last'.retrieved
          /\ clients' = clients
          /\ requests' = requests]_vars

\* a call without its required field was made while a cache held an entry
C6_Witness ==
  /\ last.event = "call"
  /\ MissingRequired(last.op, last.options)
  /\ last.invoked # <<>>
  /\ \E n \in CacheNames : DOMAIN clients[last.client][n].entries # {}

----------------------------------------------------------------------------
(* C7 *)

\* C7: in a cache with TTL t > 0, a value added under k is what retrieve(k)
\* returns from the moment of the add until t ms have elapsed, and null from
\* then on; and a request for a path whose entry has expired issues a new
\* network GET.
C7_Expiry ==
  /\ (last.event \in {"end", "error"} /\ last.invoked # <<>>
        /\ LastCache.ttlMillis > 0)
       => /\ retrieve(LastCache, last.path, now) = last.invoked[1].arg
          /\ \A d \in 0..(MaxTime + 1) :
               retrieve(LastCache, last.path, now + d) =
                 IF d < LastCache.ttlMillis THEN last.invoked[1].arg ELSE NULL
          /\ retrieve(LastCache, last.path, now + LastCache.ttlMillis) = NULL
  /\ (IsRequest /\ LastCache.ttlMillis > 0 /\ HasEntry
        /\ now >= LastEntry.expiresAt)
       => last.get /\ last.invoked = <<>>

\* a request found the expired entry of a cache with TTL > 0
C7_Witness ==
  /\ IsRequest /\ LastCache.ttlMillis > 0 /\ HasEntry
  /\ last.op = "match"
  /\ now >= LastEntry.expiresAt
  /\ last.get

----------------------------------------------------------------------------
(* C8 *)

\* the cache the constructor creates for each key of the `cache` option
TypeCache ==
  [player |-> "playerCache", playerStats |-> "playerStatsCache",
   status |-> "statusCache", seasons |-> "seasonsCache", match |-> "matchCache",
   tournaments |-> "tournamentsCache", tournament |-> "tournamentCache"]

\* the client was constructed with TTL 0 for the cache the latest call uses
ConfiguredZero ==
  \E type \in DOMAIN TypeCache :
    /\ Has(config[last.client], "cache")
    /\ Has(config[last.client].cache, type)
    /\ config[last.client].cache[type] = 0
    /\ last.cache = TypeCache[type]

\* C8: when the TTL configured for a resource type is 0, a lookup in its
\* cache never returns a value added before, and every request that uses the
\* cache issues a network GET and none is answered from the cache.
C8_ZeroTtlDisables ==
  (IsRequest /\ ConfiguredZero)
    => /\ \A k \in DOMAIN LastCache.entries : retrieve(LastCache, k, now) = NULL
       /\ last.get
       /\ last.invoked = <<>>

\* a request used a cache configured with TTL 0 that had the path added before
C8_Witness ==
  IsRequest /\ ConfiguredZero /\ HasEntry /\ last.op = "match" /\ last.get

----------------------------------------------------------------------------
(* C9 *)

\* the cache of the resource type each operation fetches
ResourceCache ==
  [player |-> "playerCache", playerStats |-> "playerStatsCache",
   status |-> "statusCache", seasons |-> "seasonsCache", match |-> "matchCache",
   telemetry |-> "matchCache", tournaments |-> "tournamentsCache",
   tournament |-> "tournamentCache"]

\* C9: every operation looks up and stores in the cache of the resource type
\* it fetches; a match document (match, telemetry) is in the match cache.
C9_OwnCache == IsRequest => last.cache = ResourceCache[last.op]

----------------------------------------------------------------------------
(* C10 *)

HasAsset(included) == \E i \in 1..Len(included) : included[i].type = "asset"

FirstAsset(included) ==
  included[CHOOSE i \in 1..Len(included) :
             /\ included[i].type = "asset"
             /\ \A j \in 1..(i - 1) : included[j].type # "asset"]

\* C10: getTelemetryURL returns the attributes.URL of the `included` entry of
\* type "asset", and returns undefined, without throwing, when there is none.
C10_TelemetryURL ==
  fnOut # NoArg
    => fnOut = [return |-> IF HasAsset(fnIn.included)
                           THEN FirstAsset(fnIn.included).attributes.URL
                           ELSE UNDEFINED]

----------------------------------------------------------------------------
(* C11 *)

\* the operations whose path names a region
RegionScoped == {"player", "telemetry", "playerStats", "seasons", "match"}

Regions == {REGIONS.PC.STEAM, REGIONS.PC.KAKAO}

\* the region the latest call addresses: its own, or the one the client was
\* constructed with, or steam
ClaimedRegion ==
  IF last.options # NoArg /\ Has(last.options, "region") THEN last.options.region
  ELSE IF Has(config[last.client], "defaultRegion")
  THEN config[last.client].defaultRegion
  ELSE "steam"

\* what follows the region in the path of a region-scoped operation
Resource(op, options) ==
  CASE op = "player" ->
         IF Has(options, "id") THEN "/players/" \o options.id
         ELSE "/players?filter[playerNames]=" \o options.name
    [] op = "telemetry" -> "/matches/" \o options.matchId
    [] op = "playerStats" ->
         "/players/" \o options.playerId \o "/seasons/" \o options.seasonId
    [] op = "seasons" -> "/seasons"
    [] op = "match" -> "/matches/" \o options.id

\* the options with `region` set to r
WithRegion(options, r) ==
  IF options = NoArg THEN [region |-> r]
  ELSE [f \in DOMAIN options \cup {"region"} |->
          IF f = "region" THEN r ELSE options[f]]

\* the request the latest call's client makes for these options
RequestOf(options) == Operation(clients[last.client], last.op, options)

\* C11: the path of a region-scoped operation names options.region when it
\* is given and the client's default region (steam unless configured)
\* otherwise; the same call with that region spelled out has the same path
\* and cache, and with any other region it has another path.
C11_RegionPath ==
  (IsRequest /\ last.op \in RegionScoped)
    => /\ last.path = "/shards/" \o ClaimedRegion \o Resource(last.op, last.options)
       /\ RequestOf(WithRegion(last.options, ClaimedRegion)).apiOptions.path = last.path
       /\ RequestOf(WithRegion(last.options, ClaimedRegion)).cache = last.cache
       /\ \A r \in Regions \ {ClaimedRegion} :
            RequestOf(WithRegion(last.options, r)).apiOptions.path # last.path

\* a call naming the client's default region was answered from the one entry
\* of its cache
C11_Witness ==
  /\ IsRequest /\ last.op \in RegionScoped
  /\ last.options # NoArg /\ Has(last.options, "region")
  /\ last.options.region = clients[last.client].defaultRegion
  /\ LiveEntry /\ ~last.get
  /\ Cardinality(DOMAIN LastCache.entries) = 1

----------------------------------------------------------------------------
(* C12 *)

\* C12: when the body parses, the call rejects with an Error whose message
\* is errors[0].title, followed by ". Details: " and errors[0].detail when
\* there is a detail, if `errors` is a non-empty array; a document without
\* `errors` or with an empty one is resolved unchanged.
C12_ErrorMessage ==
  (last.event = "end" /\ ~last.threw)
    => LET doc == JSONparse(last.data).value IN
       /\ (Has(doc, "errors") /\ doc.errors # <<>>)
            => /\ last.invoked =
                    <<Reject(Error(
                        IF Has(doc.errors[1], "detail")
                        THEN doc.errors[1].title \o ". Details: " \o doc.errors[1].detail
                        ELSE doc.errors[1].title))>>
       /\ (~Has(doc, "errors") \/ doc.errors = <<>>)
            => last.invoked = <<Resolve(doc)>>
       /\ last.data = Join(BodyNotFound)
            => last.invoked[1].arg.message = "Not found"
       /\ last.data = Join(BodyErrorDetail)
            => last.invoked[1].arg.message = "Unauthorized. Details: bad key"
       /\ last.data = Join(BodyNoErrors)
            => last.invoked = <<Resolve([errors |-> <<>>, data |-> "d3"])>>

\* both cases in one behaviour: a response whose first error has a detail,
\* and a second error, was rejected with title and detail, and the cache
\* still holds, under another path, the Error built from an envelope whose
\* only error has a title and no detail
C12_Witness ==
  /\ last.event = "end"
  /\ IsErrorEnvelope(last.data)
  /\ Len(JSONparse(last.data).value.errors) = 2
  /\ Has(JSONparse(last.data).value.errors[1], "detail")
  /\ last.invoked = <<Reject(Error("Unauthorized. Details: bad key"))>>
  /\ \E p \in DOMAIN LastCache.entries :
       /\ p # last.path
       /\ ~Has(JSONparse(Join(BodyNotFound)).value.errors[1], "detail")
       /\ LastCache.entries[p].value =
            Error(JSONparse(Join(BodyNotFound)).value.errors[1].title)
       /\ LastCache.entries[p].value.message = "Not found"

----------------------------------------------------------------------------
(* C13 *)

\* C13: player() requests /shards/{region}/players/{id} whenever id is
\* given, with or without a name, and the name filter path only when id is
\* absent and name is given.
C13_IdBeforeName ==
  (IsRequest /\ last.op = "player")
    => IF Has(last.options, "id")
       THEN /\ last.path = "/shards/" \o ClaimedRegion \o "/players/" \o last.options.id
            /\ Has(last.options, "name")
                 => last.path # "/shards/" \o ClaimedRegion
                                  \o "/players?filter[playerNames]=" \o last.options.name
       ELSE last.path = "/shards/" \o ClaimedRegion
                          \o "/players?filter[playerNames]=" \o last.options.name

\* player() was called with both an id and a name and issued a GET
C13_Witness ==
  /\ IsRequest /\ last.op = "player"
  /\ Has(last.options, "id") /\ Has(last.options, "name")
  /\ last.get

----------------------------------------------------------------------------
(* C14 *)

\* the constructor is given no options, or options without a key
NoKey(options) ==
  options = NoArg \/ ~Has(options, "key") \/ options.key = NULLSTR

\* C14: a construction without options, or with a key that is undefined or
\* null, throws an Error and leaves no instance, hence no cache, and no
\* request behind; a construction with a key yields an instance with the
\* seven caches, all empty.
C14_ConstructorKey ==
  [][last'.event = "construct"
       => IF NoKey(last'.options)
          THEN /\ last'.threw
               /\ last'.data \in {"No options parameter specified.",
                                  "Api key must be specified"}
               /\ clients'[last'.client] = NoClient
               /\ clients' = clients
               /\ requests' = requests
               /\ gets' = gets
          ELSE /\ ~last'.threw
               /\ clients'[last'.client].apiKey = last'.options.key
               /\ \A n \in CacheNames :
                    /\ Has(clients'[last'.client], n)
                    /\ DOMAIN clients'[last'.client][n].entries = {}
               /\ requests' = requests
               /\ gets' = gets]_vars

\* a construction with the key null failed while another client was in use
C14_Witness ==
  /\ last.event = "construct"
  /\ last.options = [key |-> NULLSTR]
  /\ last.threw
  /\ clients[last.client] = NoClient
  /\ \E c \in ClientIds : clients[c] # NoClient /\ gets > 0

----------------------------------------------------------------------------
(* C20 *)

\* another client holds a live entry for the latest call's path, and the
\* client of the call holds none
OnlyOtherHolds ==
  /\ ~LiveEntry
  /\ \E d \in ClientIds \ {last.client} :
       /\ clients[d] # NoClient
       /\ last.path \in DOMAIN clients[d][last.cache].entries
       /\ now < clients[d][last.cache].entries[last.path].expiresAt

\* C20: a call is answered from the cache exactly when the cache of its own
\* client holds a live entry for the path, and then with that entry,
\* whatever the caches of the other clients hold; and the caches of a client
\* change only when a request made through that client completes.
C20_OwnCaches ==
  /\ [](IsRequest
          => /\ last.get <=> ~LiveEntry
             /\ ~last.get => /\ Len(last.invoked) = 1
                             /\ last.invoked[1].arg = LastEntry.value)
  /\ [][\A c \in ClientIds :
          (clients[c] # NoClient /\ clients'[c] # clients[c])
            => /\ last'.event \in {"end", "error"}
               /\ last'.client = c]_vars

\* a call for a path that only the other client has cached issued a GET
C20_Witness ==
  /\ IsRequest
  /\ OnlyOtherHolds
  /\ config[1].key # config[2].key
  /\ last.get

----------------------------------------------------------------------------
(* C15 *)

\* the request in flight at position i is for the cache and path of the
\* latest call
SameTarget(i) ==
  /\ requests[i].client = last.client
  /\ requests[i].cache = last.cache
  /\ requests[i].options.path = last.path

\* what a call is settled with for the text its own response delivered
OutcomeOf(data) ==
  LET doc == JSONparse(data).value IN
  IF Has(doc, "errors") /\ doc.errors # <<>>
  THEN Reject(Error(ErrorMessage(doc)))
  ELSE Resolve(doc)

\* C15: a call that finds no live entry issues a GET of its own, whatever
\* requests for the same path are in flight (n such calls issue n GETs), and
\* every callback a network attempt invokes carries the outcome of that
\* attempt: its own body, or its own transport error.
C15_NoCoalescing ==
  /\ []((IsRequest /\ ~LiveEntry)
          => /\ last.get /\ last.invoked = <<>>
             /\ requests # <<>>
             /\ SameTarget(Len(requests))
             /\ requests[Len(requests)].stage = "sent")
  /\ []((last.event = "end" /\ ~last.threw)
          => last.invoked = <<OutcomeOf(last.data)>>)
  /\ [](last.event = "error" => last.invoked = <<Reject(SocketHangUp)>>)
  /\ [][(last'.event = "call" /\ last'.get)
          => /\ gets' = gets + 1
             /\ Len(requests') = Len(requests) + 1
             /\ SubSeq(requests', 1, Len(requests)) = requests]_vars

\* the second of two calls for one path, made while the first was in flight,
\* issued the second GET
C15_Witness ==
  /\ IsRequest /\ last.get
  /\ Len(requests) = 2
  /\ SameTarget(1) /\ SameTarget(2)
  /\ gets = 2

----------------------------------------------------------------------------
(* C16 *)

\* the entries of cache n of client c that the step added or changed
Written(c, n) ==
  {k \in DOMAIN clients'[c][n].entries :
     \/ k \notin DOMAIN clients[c][n].entries
     \/ clients'[c][n].entries[k] # clients[c][n].entries[k]}

\* C16: a call (a hit, a rejected call, a call that issues a GET) leaves
\* every cache as it is; no step removes an entry or changes a TTL; and an
\* entry is added or changed only by the 'end' or 'error' handler of a
\* request, in that request's cache and under that request's path.
C16_CacheFrame ==
  [][/\ last'.event \notin {"end", "error"} => clients' = clients
     /\ \A c \in ClientIds :
          clients[c] # NoClient
            => /\ clients'[c].apiKey = clients[c].apiKey
               /\ \A n \in CacheNames :
                    /\ clients'[c][n].ttlMillis = clients[c][n].ttlMillis
                    /\ DOMAIN clients[c][n].entries \subseteq DOMAIN clients'[c][n].entries
                    /\ \A k \in Written(c, n) :
                         /\ last'.event \in {"end", "error"}
                         /\ last'.invoked # <<>>
                         /\ c = last'.client
                         /\ n = last'.cache
                         /\ k = last'.path]_vars

\* a request completed while another cache of the client held an entry for
\* the same path with another value
C16_Witness ==
  /\ last.event \in {"end", "error"}
  /\ last.invoked # <<>>
  /\ \E n \in CacheNames \ {last.cache} :
       /\ last.path \in DOMAIN clients[last.client][n].entries
       /\ clients[last.client][n].entries[last.path].value # LastEntry.value

----------------------------------------------------------------------------
(* C17 *)

\* C17: a call that finds a live entry issues no GET and a call that finds
\* none issues one; a GET is issued by a call and by nothing else, one at a
\* time, and the handlers of a response or of a transport error issue none.
C17_SingleGet ==
  /\ [](IsRequest => (last.get <=> ~LiveEntry))
  /\ [][/\ (gets' # gets \/ Len(requests') > Len(requests))
             => /\ last'.event = "call"
                /\ last'.get
                /\ gets' = gets + 1
                /\ Len(requests') = Len(requests) + 1
        /\ last'.event \in {"response", "data", "end", "error", "close"}
             => /\ gets' = gets
                /\ Len(requests') <= Len(requests)]_vars

\* the only GET of the behaviour ended in an api error and nothing is in
\* flight
C17_Witness ==
  /\ last.event = "end"
  /\ IsErrorEnvelope(last.data)
  /\ last.invoked # <<>> /\ last.invoked[1].fn = "reject"
  /\ gets = 1
  /\ requests = <<>>

----------------------------------------------------------------------------
(* C19 *)

\* C19, as stated: an error stored for a path is replayed to every request
\* for that path until the cache's TTL has elapsed since it was stored.
C19_Original ==
  (IsRequest /\ (EarlierOutcome("api") \/ EarlierOutcome("transport")))
    => /\ AnsweredFromCache("reject", firstDone[LastDoneKey].value)
       /\ IsError(firstDone[LastDoneKey].value)

\* C19, amended: an error is stored like a success, to expire one TTL after
\* the completion that stored it; a request that finds the error live (not
\* expired and not replaced by the completion of another network attempt
\* for the path) is rejected with it and issues no GET; a request that
\* finds it expired issues a new GET and is not rejected by the lookup.
C19_ErrorExpiry ==
  /\ (last.event \in {"end", "error"} /\ last.invoked # <<>>)
       => /\ Stored(last.invoked[Len(last.invoked)].arg)
          /\ LastEntry.expiresAt = now + LastCache.ttlMillis
  /\ (IsRequest /\ LiveEntry /\ IsError(LastEntry.value))
       => AnsweredFromCache("reject", LastEntry.value)
  /\ (IsRequest /\ HasEntry /\ IsError(LastEntry.value)
        /\ now >= LastEntry.expiresAt)
       => /\ last.get /\ last.invoked = <<>>
          /\ requests[Len(requests)].stage = "sent"

\* a request found the expired error of a cache with TTL > 0 and issued the
\* GET that can replace it
C19_Witness ==
  /\ IsRequest /\ HasEntry /\ IsError(LastEntry.value)
  /\ LastCache.ttlMillis > 0
  /\ now >= LastEntry.expiresAt
  /\ last.get
  /\ requests # <<>> /\ SameTarget(Len(requests))

----------------------------------------------------------------------------
(* C18 *)

\* the oldest outcome for the latest step's path whose TTL has not elapsed
\* is that of a re-fetch: of an attempt issued over an expired entry
RefetchOutcome ==
  /\ LastDoneKey \in DOMAIN firstDone
  /\ firstDone[LastDoneKey].refetch
  /\ now < firstDone[LastDoneKey].expires

\* C18, as stated: after a re-fetch has completed, every lookup within the
\* new TTL returns the outcome of that re-fetch.
C18_Original ==
  (IsRequest /\ RefetchOutcome)
    => /\ ~last.get
       /\ Len(last.invoked) = 1
       /\ last.invoked[1].arg = firstDone[LastDoneKey].value

\* C18, amended: a cache holds one entry per key, which every completion
\* replaces wholesale by its outcome and a new expiry (the number of entries
\* grows by one for a new key and not at all for a key already there); a
\* lookup that finds the entry live (within the new TTL and not replaced in
\* turn by the completion of another network attempt) returns that outcome,
\* and an expired entry is never returned.
C18_Replaced ==
  /\ []((last.event \in {"end", "error"} /\ last.invoked # <<>>)
          => LastEntry = [value |-> last.invoked[Len(last.invoked)].arg,
                          expiresAt |-> now + LastCache.ttlMillis])
  /\ []((IsRequest /\ LiveEntry)
          => AnsweredFromCache(IF IsError(LastEntry.value) THEN "reject" ELSE "resolve",
                               LastEntry.value))
  /\ []((IsRequest /\ ~LiveEntry) => (last.get /\ last.invoked = <<>>))
  /\ [][(last'.event \in {"end", "error"} /\ last'.invoked # <<>>)
          => LET before == clients[last'.client][last'.cache].entries
                 after == clients'[last'.client][last'.cache].entries IN
             /\ DOMAIN after = DOMAIN before \cup {last'.path}
             /\ Cardinality(DOMAIN after) =
                  IF last'.path \in DOMAIN before
                  THEN Cardinality(DOMAIN before)
                  ELSE Cardinality(DOMAIN before) + 1]_vars

\* a request was answered with the outcome of a re-fetch, within its TTL
C18_Witness ==
  /\ IsRequest /\ RefetchOutcome
  /\ LiveEntry
  /\ ~last.get
  /\ last.invoked # <<>>
  /\ last.invoked[1].arg = firstDone[LastDoneKey].value
  /\ gets >= 2

----------------------------------------------------------------------------
(* C21 *)

\* the latest step is a network completion that invoked a callback
IsCompletion == last.event \in {"end", "error"} /\ last.invoked # <<>>

\* C21: the handler of a network completion calls cache.add before it calls
\* resolve or reject, with the value it hands to the callback; with a
\* TTL > 0 the cache then returns that value, and a call for the same path
\* and cache made next, as from the continuation of the caller, is answered
\* from the cache with the same callback and value and issues no GET.
C21_StoredBeforeSettled ==
  /\ [](IsCompletion
          => /\ last.calls = <<"add", last.invoked[1].fn>>
             /\ Len(last.invoked) = 1
             /\ Stored(last.invoked[1].arg)
             /\ LastCache.ttlMillis > 0
                  => retrieve(LastCache, last.path, now) = last.invoked[1].arg)
  /\ [][(/\ IsCompletion
         /\ LastCache.ttlMillis > 0
         /\ last'.event = "call"
         /\ last'.client = last.client
         /\ last'.cache = last.cache
         /\ last'.path = last.path)
          => /\ ~last'.get
             /\ last'.invoked = last.invoked
             /\ gets' = gets
             /\ requests' = requests]_vars

\* a call for the path whose request has just ended in an api error was
\* answered from the cache at the time of the completion
C21_Witness ==
  /\ IsRequest /\ ~last.get
  /\ LiveEntry
  /\ LastEntry.expiresAt = now + LastCache.ttlMillis
  /\ IsError(LastEntry.value) /\ LastEntry.value # SocketHangUp
  /\ last.invoked = <<Reject(LastEntry.value)>>
  /\ gets = 1 /\ requests = <<>>

----------------------------------------------------------------------------
(* C22 *)

\* the first outcome noted for the latest step's path is still within its
\* TTL and the entry now holds another value: it has been overwritten
Overwritten ==
  /\ LastDoneKey \in DOMAIN firstDone
  /\ now < firstDone[LastDoneKey].expires
  /\ HasEntry
  /\ LastEntry.value # firstDone[LastDoneKey].value

\* C22: every network completion writes its outcome over the entry of its
\* path, whatever the entry holds (a live success, a live error), with the
\* expiry counted from that completion; no other step changes a cache; so
\* the entry is the outcome of the latest completion, and that is what a
\* request that finds it live is answered with.
C22_LastCompletionWins ==
  /\ [](IsCompletion
          => /\ LastEntry.value = last.invoked[Len(last.invoked)].arg
             /\ LastEntry.expiresAt = now + LastCache.ttlMillis)
  /\ [][~(last'.event \in {"end", "error"} /\ last'.invoked # <<>>)
          => clients' = clients]_vars
  /\ [][(last'.event \in {"end", "error"} /\ last'.invoked # <<>>)
          => \A c \in ClientIds :
               clients[c] # NoClient
                 => \A n \in CacheNames :
                      \A k \in DOMAIN clients'[c][n].entries :
                        (c # last'.client \/ n # last'.cache \/ k # last'.path)
                          => /\ k \in DOMAIN clients[c][n].entries
                             /\ clients'[c][n].entries[k] = clients[c][n].entries[k]]_vars
  /\ []((IsRequest /\ LiveEntry)
          => /\ ~last.get
             /\ last.invoked = <<[fn |-> IF IsError(LastEntry.value)
                                         THEN "reject" ELSE "resolve",
                                  arg |-> LastEntry.value]>>)

\* of two requests in flight for one path the first completed with a
\* success and the second, completing within the TTL of that success, wrote
\* an error over it
C22_Witness ==
  /\ IsCompletion
  /\ Overwritten
  /\ firstDone[LastDoneKey].kind = "success"
  /\ IsError(LastEntry.value)
  /\ LastCache.ttlMillis > 0
  /\ last.total = 1
  /\ gets = 2

====
